---- MODULE Spec2Model ----
(***************************************************************************)
(* Model of nanotune's device tuner (src/nanotune/device_tuner/tuner.py):  *)
(* the two rollback context managers set_back_voltages and                 *)
(* set_back_valid_ranges, and the Tuner methods characterize_gates,        *)
(* measure_initial_ranges, device_specific_settings and                    *)
(* update_data_settings.                                                   *)
(*                                                                         *)
(* Voltages are integers counted in units of 0.01 V; every value           *)
(* numpy.linspace produces for the ranges and step counts used here is a   *)
(* whole number of them.  A Python exception is an outcome record: the call ends in     *)
(* pc = "done" with outcome.kind naming the exception and outcome.line the *)
(* source line that raised it.                                             *)
(***************************************************************************)
EXTENDS Integers, Sequences, FiniteSets, TLC

VARIABLES
    dc_voltage,           \* gate -> output value            (Gate.dc_voltage)
    current_valid_range,  \* gate -> <<low, high>>           (Gate.current_valid_range)
    classifiers,          \* keys of Tuner.classifiers
    data_settings,        \* Tuner._data_settings, a dict: key -> value
    tuningresults,        \* Tuner.tuningresults: device name -> list of TuningResult
    numpy_truncates,      \* build: numpy.linspace accepts a float `num` (numpy < 1.18)
    device_constants,     \* device name -> the device's stored normalization constants
    pc,                   \* position of the running call
    op,                   \* the function being executed
    args,                 \* its arguments
    loc,                  \* its local variables
    outcome,              \* how the last call ended
    pre,                  \* history: the state when the running call was entered
    sweeps,               \* history: the collaborator invocations of the running call
    writes                \* history: the writes made to the gates, in order

vars == <<dc_voltage, current_valid_range, classifiers, data_settings,
          tuningresults, numpy_truncates, device_constants, pc, op, args, loc, outcome, pre,
          sweeps, writes>>

hardware == <<dc_voltage, current_valid_range>>
tuner    == <<classifiers, data_settings, tuningresults>>
environment == <<numpy_truncates, device_constants>>

-----------------------------------------------------------------------------
(* Bounds of the model.                                                    *)

NumGates    == 3    \* gates of the device
MaxGates    == 2    \* longest gate list handed to a call
MaxBodyOps  == 2    \* writes made by the body of a rollback scope

-----------------------------------------------------------------------------
(* The device and its gates (collaborators of the tuner).                  *)

Gates       == 1..NumGates
DeviceNames == {"d1", "d2"}
None        == "None"

\* Gate.safety_range(): the immutable hardware limits <<min, max>> of a gate.
safety_range == [g \in Gates |-> IF g % 2 = 1 THEN <<-200, 0>> ELSE <<-300, 0>>]

\* Gate.layout_id(): the position of the gate in the device layout.
layout_id == [g \in Gates |-> g - 1]

\* Gate.name
gate_name == [g \in Gates |-> g]

\* Device.normalization_constants(): the constants the device stores.
normalization_constants == device_constants

\* Values and ranges bodies of a rollback scope may write.
Voltages == {-100, -50, 0}
Ranges   == {<<-100, 0>>, <<-50, 0>>, <<-200, 0>>}

\* Gate lists handed to the functions: no gate twice, at most MaxGates long.
RECURSIVE ListsOfLen(_)
ListsOfLen(n) ==
    IF n = 0 THEN {<<>>}
    ELSE {Append(s, g) : s \in ListsOfLen(n - 1), g \in Gates}

Injective(s) == \A i, j \in 1..Len(s) : i # j => s[i] # s[j]

GateLists == UNION {{s \in ListsOfLen(n) : Injective(s)} : n \in 0..MaxGates}

-----------------------------------------------------------------------------
(* Helpers shared by the functions.                                        *)

\* `for ig, gate in enumerate(gates): setter(gate, values[ig])`, in list order.
RECURSIVE SetEach(_, _, _, _)
SetEach(f, gs, values, ig) ==
    IF ig > Len(gs) THEN f
    ELSE SetEach([f EXCEPT ![gs[ig]] = values[ig]], gs, values, ig + 1)

\* `for gate in gates: captured.append(getter(gate))`
Capture(f, gs) == [ig \in 1..Len(gs) |-> f[gs[ig]]]

\* dict.update(new): keys of `new` are added or overwritten, no key is removed.
DictUpdate(d, new) ==
    [k \in DOMAIN d \cup DOMAIN new |-> IF k \in DOMAIN new THEN new[k] ELSE d[k]]

NoArgs == [device |-> None, gates |-> <<>>, use_safety_ranges |-> FALSE,
           gate_to_set |-> None, voltage_step |-> 0,
           readout_methods |-> <<>>, thresholds_normalized |-> <<>>,
           readout_method_to_check |-> {}, readings |-> <<>>]

NoLoc == [initial_voltages |-> <<>>, valid_ranges |-> <<>>,
          original_data_settings |-> None, tuningresult |-> None,
          gid |-> 0, n_steps |-> None, v_steps |-> <<>>, vi |-> 0,
          skip_gates |-> <<>>, last_gate |-> None,
          init_range_gate_to_set |-> <<>>,
          normalization_constants |-> <<>>, read_meth |-> 0,
          have_signal |-> FALSE]

NoOutcome == [kind |-> "none", line |-> 0, value |-> None]

Snapshot == [dc_voltage |-> dc_voltage,
             current_valid_range |-> current_valid_range,
             device_constants |-> device_constants,
             data_settings |-> data_settings,
             tuningresults |-> tuningresults]

-----------------------------------------------------------------------------
(* set_back_voltages and set_back_valid_ranges, around an arbitrary body.  *)

\* set_back_voltages up to its yield: capture every gate's dc_voltage.
SetBackVoltagesEnter(gs) ==
    /\ pc = "idle"
    /\ pc' = "yield"
    /\ op' = "set_back_voltages"
    /\ args' = [NoArgs EXCEPT !.gates = gs]
    /\ loc' = [NoLoc EXCEPT !.initial_voltages = Capture(dc_voltage, gs)]
    /\ pre' = Snapshot
    /\ UNCHANGED <<hardware, tuner, environment, outcome, sweeps, writes>>

\* set_back_valid_ranges up to its yield: capture every gate's range.
SetBackValidRangesEnter(gs) ==
    /\ pc = "idle"
    /\ pc' = "yield"
    /\ op' = "set_back_valid_ranges"
    /\ args' = [NoArgs EXCEPT !.gates = gs]
    /\ loc' = [NoLoc EXCEPT !.valid_ranges = Capture(current_valid_range, gs)]
    /\ pre' = Snapshot
    /\ UNCHANGED <<hardware, tuner, environment, outcome, sweeps, writes>>

\* The protected block writes a gate's output value.
BodySetVoltage(g, v) ==
    /\ pc = "yield"
    /\ Len(writes) < MaxBodyOps
    /\ dc_voltage[g] # v
    /\ dc_voltage' = [dc_voltage EXCEPT ![g] = v]
    /\ writes' = Append(writes, <<"dc_voltage", g>>)
    /\ UNCHANGED <<current_valid_range, tuner, environment, pc, op, args,
                   loc, outcome, pre, sweeps>>

\* The protected block writes a gate's allowed range.
BodySetRange(g, r) ==
    /\ pc = "yield"
    /\ Len(writes) < MaxBodyOps
    /\ current_valid_range[g] # r
    /\ current_valid_range' = [current_valid_range EXCEPT ![g] = r]
    /\ writes' = Append(writes, <<"current_valid_range", g>>)
    /\ UNCHANGED <<dc_voltage, tuner, environment, pc, op, args, loc,
                   outcome, pre, sweeps>>

\* Variant: the restoring loop sits after the block instead of in `finally`.
RestoreVoltagesUnlessRaised(voltages, gs, initial_voltages, raised) ==
    IF raised THEN voltages ELSE SetEach(voltages, gs, initial_voltages, 1)

\* The finally clause of set_back_voltages.
RestoreVoltages(voltages, gs, initial_voltages, raised) ==
    SetEach(voltages, gs, initial_voltages, 1)

\* Variant: the restoring loop sits after the block instead of in `finally`.
RestoreValidRangesUnlessRaised(ranges, gs, valid_ranges, raised) ==
    IF raised THEN ranges ELSE SetEach(ranges, gs, valid_ranges, 1)

\* The finally clause of set_back_valid_ranges.
RestoreValidRanges(ranges, gs, valid_ranges, raised) ==
    SetEach(ranges, gs, valid_ranges, 1)

\* The block of set_back_voltages ends, normally or by raising.
SetBackVoltagesExit(raised) ==
    /\ pc = "yield"
    /\ op = "set_back_voltages"
    /\ dc_voltage' = RestoreVoltages(dc_voltage, args.gates,
                                      loc.initial_voltages, raised)
    /\ pc' = "done"
    /\ outcome' = [NoOutcome EXCEPT
                     !.kind = IF raised THEN "BodyError" ELSE "return"]
    /\ UNCHANGED <<current_valid_range, tuner, environment, op, args, loc,
                   pre, sweeps, writes>>

\* The block of set_back_valid_ranges ends, normally or by raising.
SetBackValidRangesExit(raised) ==
    /\ pc = "yield"
    /\ op = "set_back_valid_ranges"
    /\ current_valid_range' =
           RestoreValidRanges(current_valid_range, args.gates,
                              loc.valid_ranges, raised)
    /\ pc' = "done"
    /\ outcome' = [NoOutcome EXCEPT
                     !.kind = IF raised THEN "BodyError" ELSE "return"]
    /\ UNCHANGED <<dc_voltage, tuner, environment, op, args, loc, pre,
                   sweeps, writes>>

\* Constants whose content plays no part: one value per device.
OpaqueConstants == [d \in DeviceNames |-> IF d = "d1" THEN "nc_d1" ELSE "nc_d2"]

InitHardware ==
    /\ dc_voltage = [g \in Gates |-> -10 * g]
    /\ current_valid_range = [g \in Gates |-> <<-40 * g, 0>>]

InitFrame ==
    /\ pc = "idle"
    /\ op = "none"
    /\ args = NoArgs
    /\ loc = NoLoc
    /\ outcome = NoOutcome
    /\ pre = None
    /\ sweeps = <<>>
    /\ writes = <<>>

InitScope ==
    /\ InitHardware
    /\ InitFrame
    /\ classifiers = {"pinchoff"}
    /\ data_settings = [k \in {"db_name"} |-> "db"]
    /\ tuningresults = [n \in {} |-> <<>>]
    /\ numpy_truncates = TRUE
    /\ device_constants = OpaqueConstants

NextScope ==
    \/ \E gs \in GateLists : SetBackVoltagesEnter(gs)
    \/ \E gs \in GateLists : SetBackValidRangesEnter(gs)
    \/ \E g \in Gates, v \in Voltages : BodySetVoltage(g, v)
    \/ \E g \in Gates, r \in Ranges : BodySetRange(g, r)
    \/ \E raised \in BOOLEAN : SetBackVoltagesExit(raised)
    \/ \E raised \in BOOLEAN : SetBackValidRangesExit(raised)

SpecScope == InitScope /\ [][NextScope]_vars

-----------------------------------------------------------------------------
(* Tuner: the data_settings parameter and device_specific_settings.        *)

\* Tuner.update_data_settings, the set_cmd of the data_settings parameter.
update_data_settings(settings, new_settings) == DictUpdate(settings, new_settings)

\* device_specific_settings up to its yield: the constants of the device are
\* written into data_settings.
OverlaySettings(settings, d) ==
    update_data_settings(settings,
        [k \in {"normalization_constants"} |-> normalization_constants[d]])

\* The finally clause of device_specific_settings: the deep copy taken on
\* entry is handed to the data_settings parameter.
RestoreSettings(settings, original_data_settings) ==
    update_data_settings(settings, original_data_settings)

\* TuningResult.add_result appends one entry.
add_result(tuningresult, name, success, termination_reasons) ==
    Append(tuningresult, [name |-> name, success |-> success,
                          termination_reasons |-> termination_reasons])

\* What GateCharacterization1D.run_stage can return.
StageReturns == {[success |-> TRUE,  termination_reasons |-> <<>>],
                 [success |-> FALSE, termination_reasons |-> <<"open current">>]}

\* History entries: run_stage was invoked for `gate` at forward step `step`
\* (0 in characterize_gates) and returned r, or raised.
Returned(gate, step, r) ==
    [gate |-> gate, step |-> step, raised |-> FALSE, success |-> r.success,
     termination_reasons |-> r.termination_reasons]

Raised(gate, step) ==
    [gate |-> gate, step |-> step, raised |-> TRUE, success |-> FALSE,
     termination_reasons |-> <<>>]

\* One call is followed from the state the tuner was left in by earlier calls.
StartCall == pc = "idle"

\* A call ends by raising `kind` at source line `line`.
Raise(kind, line) ==
    /\ pc' = "done"
    /\ outcome' = [kind |-> kind, line |-> line, value |-> None]

-----------------------------------------------------------------------------
(* Tuner.characterize_gates                                                *)

\* Variant: the classifier check is left out.
MissingPinchoffUnchecked(keys) == FALSE

\* `if 'pinchoff' not in self.classifiers.keys(): raise KeyError`
MissingPinchoff(keys) == "pinchoff" \notin keys

\* `if use_safety_ranges: for gate in gates: gate.current_valid_range(gate.safety_range())`
WidenToSafety(ranges, gs, use) ==
    IF use THEN SetEach(ranges, gs, Capture(safety_range, gs), 1) ELSE ranges

\* The call up to the first pass of `for gate in gates`.
CharacterizeGates(d, gs, use) ==
    /\ StartCall
    /\ op' = "characterize_gates"
    /\ args' = [NoArgs EXCEPT !.device = d, !.gates = gs,
                              !.use_safety_ranges = use]
    /\ pre' = Snapshot
    /\ sweeps' = <<>>
    /\ IF MissingPinchoff(classifiers)
       THEN /\ Raise("KeyError", 244)
            /\ loc' = NoLoc
            /\ UNCHANGED <<hardware, data_settings>>
       ELSE /\ pc' = "characterize_gates_for"
            /\ outcome' = NoOutcome
            /\ current_valid_range' = WidenToSafety(current_valid_range, gs, use)
            /\ data_settings' = OverlaySettings(data_settings, d)
            /\ loc' = [NoLoc EXCEPT
                         !.valid_ranges = Capture(current_valid_range, gs),
                         !.tuningresult = <<>>,
                         !.original_data_settings = data_settings,
                         !.gid = 1]
            /\ UNCHANGED dc_voltage
    /\ UNCHANGED <<classifiers, tuningresults, environment, writes>>

\* One pass of the loop: run_stage returns and its entry is added.
RecordStage(tuningresult, gate, r) ==
    add_result(tuningresult, <<"characterization_", gate_name[gate]>>,
               r.success, r.termination_reasons)

\* Variant: the loop is left at the first sweep that reports no success.
CharacterizeGatesRunStageStops(r) ==
    /\ pc = "characterize_gates_for"
    /\ loc.gid <= Len(args.gates)
    /\ sweeps' = Append(sweeps, Returned(args.gates[loc.gid], 0, r))
    /\ loc' = [loc EXCEPT
                 !.tuningresult = RecordStage(@, args.gates[loc.gid], r),
                 !.gid = IF r.success THEN @ + 1 ELSE Len(args.gates) + 1]
    /\ UNCHANGED <<hardware, tuner, environment, pc, op, args, outcome,
                   pre, writes>>

CharacterizeGatesRunStage(r) ==
    /\ pc = "characterize_gates_for"
    /\ loc.gid <= Len(args.gates)
    /\ sweeps' = Append(sweeps, Returned(args.gates[loc.gid], 0, r))
    /\ loc' = [loc EXCEPT
                 !.tuningresult = RecordStage(@, args.gates[loc.gid], r),
                 !.gid = @ + 1]
    /\ UNCHANGED <<hardware, tuner, environment, pc, op, args, outcome,
                   pre, writes>>

\* Variant: an error of run_stage is caught and recorded as a failed sweep.
CharacterizeGatesStageErrorRecorded ==
    /\ pc = "characterize_gates_for"
    /\ loc.gid <= Len(args.gates)
    /\ sweeps' = Append(sweeps, Raised(args.gates[loc.gid], 0))
    /\ loc' = [loc EXCEPT
                 !.tuningresult =
                     RecordStage(@, args.gates[loc.gid],
                                 [success |-> FALSE, termination_reasons |-> <<>>]),
                 !.gid = @ + 1]
    /\ UNCHANGED <<hardware, tuner, environment, pc, op, args, outcome,
                   pre, writes>>

\* One pass of the loop: run_stage raises; both scopes unwind and the error
\* leaves the call.
CharacterizeGatesStageRaises ==
    /\ pc = "characterize_gates_for"
    /\ loc.gid <= Len(args.gates)
    /\ data_settings' = RestoreSettings(data_settings, loc.original_data_settings)
    /\ current_valid_range' =
           RestoreValidRanges(current_valid_range, args.gates,
                              loc.valid_ranges, TRUE)
    /\ Raise("CollaboratorFailure", 265)
    /\ sweeps' = Append(sweeps, Raised(args.gates[loc.gid], 0))
    /\ UNCHANGED <<dc_voltage, classifiers, tuningresults, environment, op,
                   args, loc, pre, writes>>

\* Variant: the list of the device is replaced instead of appended to.
ArchiveOverwrites(results, d, tuningresult) ==
    [n \in DOMAIN results \cup {d} |->
        IF n = d THEN <<tuningresult>> ELSE results[n]]

\* `self.tuningresults[device.name].append(tuningresult)`, creating the list
\* of the device when it has none.
Archive(results, d, tuningresult) ==
    [n \in DOMAIN results \cup {d} |->
        IF n = d
        THEN Append(IF d \in DOMAIN results THEN results[d] ELSE <<>>,
                    tuningresult)
        ELSE results[n]]

\* Variant: the call leaves every gate at 0 V.
CharacterizeGatesReturnZeroesGates ==
    /\ pc = "characterize_gates_for"
    /\ loc.gid > Len(args.gates)
    /\ data_settings' = RestoreSettings(data_settings, loc.original_data_settings)
    /\ current_valid_range' =
           RestoreValidRanges(current_valid_range, args.gates,
                              loc.valid_ranges, FALSE)
    /\ tuningresults' = Archive(tuningresults, args.device, loc.tuningresult)
    /\ dc_voltage' = [g \in Gates |-> 0]
    /\ pc' = "done"
    /\ outcome' = [kind |-> "return", line |-> 275, value |-> loc.tuningresult]
    /\ UNCHANGED <<classifiers, environment, op, args, loc,
                   pre, sweeps, writes>>

\* The loop is over: both scopes unwind, the result is archived and returned.
CharacterizeGatesReturn ==
    /\ pc = "characterize_gates_for"
    /\ loc.gid > Len(args.gates)
    /\ data_settings' = RestoreSettings(data_settings, loc.original_data_settings)
    /\ current_valid_range' =
           RestoreValidRanges(current_valid_range, args.gates,
                              loc.valid_ranges, FALSE)
    /\ tuningresults' = Archive(tuningresults, args.device, loc.tuningresult)
    /\ pc' = "done"
    /\ outcome' = [kind |-> "return", line |-> 275, value |-> loc.tuningresult]
    /\ UNCHANGED <<dc_voltage, classifiers, environment, op, args, loc,
                   pre, sweeps, writes>>

-----------------------------------------------------------------------------
(* Tuner.measure_initial_ranges                                            *)

\* Step widths handed to measure_initial_ranges (1.0 V, 1.5 V and 2.0 V).
VoltageSteps == {100, 150, 200}

Abs(x) == IF x < 0 THEN -x ELSE x
Max2(a, b) == IF a >= b THEN a ELSE b
Min2(a, b) == IF a <= b THEN a ELSE b

\* Device.all_gates_to_highest(): every gate of the device goes to the upper
\* end of its safety range.
all_gates_to_highest(voltages) == [g \in Gates |-> safety_range[g][2]]

\* `n_steps = abs(v_range[0] - v_range[1]) / voltage_step`: true division, the
\* quotient is a float, kept here as the fraction num/den.
NSteps(v_range, voltage_step) ==
    [num |-> Abs(v_range[1] - v_range[2]), den |-> voltage_step]

\* What numpy.linspace makes of a float `num` when it accepts one: int(num).
Truncate(n_steps) == n_steps.num \div n_steps.den

\* numpy.linspace(start, stop, num): num evenly spaced values, both ends
\* included when num >= 2, only `start` when num = 1, none when num = 0.
Linspace(start, stop, num) ==
    [i \in 1..num |->
        IF num = 1 THEN start
        ELSE start + ((i - 1) * (stop - start)) \div (num - 1)]

\* Variant: the step sequence ends one volt below the range.
VStepsPastMinimum(v_range, n_steps) ==
    Linspace(Max2(v_range[1], v_range[2]), Min2(v_range[1], v_range[2]) - 100,
             Truncate(n_steps))

\* `v_steps = np.linspace(np.max(v_range), np.min(v_range), n_steps)`
VSteps(v_range, n_steps) ==
    Linspace(Max2(v_range[1], v_range[2]), Min2(v_range[1], v_range[2]),
             Truncate(n_steps))

\* `skip_gates = dict.fromkeys(layout_ids, False)`
SkipGates(gs) == [id \in {layout_id[gs[i]] : i \in 1..Len(gs)} |-> FALSE]

\* The index `gid` that enumerate() gives the gate at position i of the list.
Gid(i) == i - 1

\* `all(skip_gates.values())`
AllSkipped(skip_gates) == \A id \in DOMAIN skip_gates : skip_gates[id]

\* The call up to the first pass of `for voltage in v_steps`.
MeasureInitialRanges(gts, gs, vs) ==
    /\ StartCall
    /\ op' = "measure_initial_ranges"
    /\ args' = [NoArgs EXCEPT !.device = "d1", !.gate_to_set = gts,
                              !.gates = gs, !.voltage_step = vs]
    /\ pre' = Snapshot
    /\ sweeps' = <<>>
    /\ IF MissingPinchoff(classifiers)
       THEN /\ Raise("KeyError", 287)
            /\ loc' = NoLoc
            /\ UNCHANGED <<dc_voltage, data_settings, writes>>
       ELSE /\ dc_voltage' = all_gates_to_highest(dc_voltage)
            /\ writes' = Append(writes, <<"all_gates_to_highest", "d1">>)
            /\ LET n_steps == NSteps(safety_range[gts], vs)
                   frame == [NoLoc EXCEPT
                               !.tuningresult = <<>>,
                               !.skip_gates = SkipGates(gs),
                               !.n_steps = n_steps,
                               !.init_range_gate_to_set = <<{}, {}>>,
                               !.original_data_settings = data_settings]
               IN IF numpy_truncates
                  THEN /\ pc' = "for_voltage"
                       /\ outcome' = NoOutcome
                       /\ data_settings' = OverlaySettings(data_settings, "d1")
                       /\ loc' = [frame EXCEPT
                                    !.v_steps = VSteps(safety_range[gts], n_steps),
                                    !.vi = 1]
                  ELSE \* linspace raises TypeError inside the settings scope
                       /\ Raise("TypeError", 303)
                       /\ data_settings' =
                              RestoreSettings(OverlaySettings(data_settings, "d1"),
                                              data_settings)
                       /\ loc' = frame
    /\ UNCHANGED <<current_valid_range, classifiers, tuningresults,
                   environment>>

\* `gate_to_set.dc_voltage(voltage)` at the head of a pass of the outer loop.
ForwardSetVoltage ==
    /\ pc = "for_voltage"
    /\ loc.vi <= Len(loc.v_steps)
    /\ dc_voltage' = [dc_voltage EXCEPT ![args.gate_to_set] = loc.v_steps[loc.vi]]
    /\ loc' = [loc EXCEPT !.gid = 1]
    /\ pc' = "for_gate"
    /\ writes' = Append(writes, <<"dc_voltage", args.gate_to_set>>)
    /\ UNCHANGED <<current_valid_range, tuner, environment, op, args,
                   outcome, pre, sweeps>>

\* Leaving `with self.device_specific_settings(device)` and executing
\* `init_range_gate_to_set[0] = gate_to_set.dc_voltage()`: the target is the
\* tuple (None, None), so the assignment raises TypeError and the tuple keeps
\* its two None (a bound is the set of its value, None is the empty set).  Nothing after this line (the reverse probe, the final
\* all_gates_to_highest, the return) is ever executed.
EndForwardScan ==
    /\ data_settings' = RestoreSettings(data_settings, loc.original_data_settings)
    /\ Raise("TypeError", 333)
    /\ UNCHANGED <<hardware, classifiers, tuningresults, environment, op,
                   args, loc, pre, sweeps, writes>>

\* The step sequence is used up.
ForwardExhausted ==
    /\ pc = "for_voltage"
    /\ loc.vi > Len(loc.v_steps)
    /\ EndForwardScan

\* `if not skip_gates[gid]` with a gid that is no key of skip_gates.
ForwardKeyError ==
    /\ pc = "for_gate"
    /\ loc.gid <= Len(args.gates)
    /\ Gid(loc.gid) \notin DOMAIN loc.skip_gates
    /\ data_settings' = RestoreSettings(data_settings, loc.original_data_settings)
    /\ Raise("KeyError", 308)
    /\ UNCHANGED <<hardware, classifiers, tuningresults, environment, op,
                   args, loc, pre, sweeps, writes>>

\* `if not skip_gates[gid]` is false: the gate is passed over.
ForwardSkip ==
    /\ pc = "for_gate"
    /\ loc.gid <= Len(args.gates)
    /\ Gid(loc.gid) \in DOMAIN loc.skip_gates
    /\ loc.skip_gates[Gid(loc.gid)]
    /\ loc' = [loc EXCEPT !.gid = @ + 1]
    /\ UNCHANGED <<hardware, tuner, environment, pc, op, args, outcome,
                   pre, sweeps, writes>>

\* Variant: the entry is named after the driving gate.
ForwardRunStageNamesDrivingGate(r) ==
    /\ pc = "for_gate"
    /\ loc.gid <= Len(args.gates)
    /\ Gid(loc.gid) \in DOMAIN loc.skip_gates
    /\ ~loc.skip_gates[Gid(loc.gid)]
    /\ sweeps' = Append(sweeps, Returned(args.gates[loc.gid], loc.vi, r))
    /\ loc' = [loc EXCEPT
                 !.tuningresult = RecordStage(@, args.gate_to_set, r),
                 !.skip_gates = IF r.success
                                THEN [@ EXCEPT ![Gid(loc.gid)] = TRUE] ELSE @,
                 !.last_gate = IF r.success THEN Gid(loc.gid) ELSE @,
                 !.gid = @ + 1]
    /\ UNCHANGED <<hardware, tuner, environment, pc, op, args, outcome,
                   pre, writes>>

\* The gate is swept: run_stage returns, the entry is added, and a success
\* marks the gate as done.
ForwardRunStage(r) ==
    /\ pc = "for_gate"
    /\ loc.gid <= Len(args.gates)
    /\ Gid(loc.gid) \in DOMAIN loc.skip_gates
    /\ ~loc.skip_gates[Gid(loc.gid)]
    /\ sweeps' = Append(sweeps, Returned(args.gates[loc.gid], loc.vi, r))
    /\ loc' = [loc EXCEPT
                 !.tuningresult = RecordStage(@, args.gates[loc.gid], r),
                 !.skip_gates = IF r.success
                                THEN [@ EXCEPT ![Gid(loc.gid)] = TRUE] ELSE @,
                 !.last_gate = IF r.success THEN Gid(loc.gid) ELSE @,
                 !.gid = @ + 1]
    /\ UNCHANGED <<hardware, tuner, environment, pc, op, args, outcome,
                   pre, writes>>

\* The gate is swept and run_stage raises.
ForwardStageRaises ==
    /\ pc = "for_gate"
    /\ loc.gid <= Len(args.gates)
    /\ Gid(loc.gid) \in DOMAIN loc.skip_gates
    /\ ~loc.skip_gates[Gid(loc.gid)]
    /\ data_settings' = RestoreSettings(data_settings, loc.original_data_settings)
    /\ Raise("CollaboratorFailure", 321)
    /\ sweeps' = Append(sweeps, Raised(args.gates[loc.gid], loc.vi))
    /\ UNCHANGED <<hardware, classifiers, tuningresults, environment, op,
                   args, loc, pre, writes>>

\* `if all(skip_gates.values()): break` is taken.
ForwardBreak ==
    /\ pc = "for_gate"
    /\ loc.gid > Len(args.gates)
    /\ AllSkipped(loc.skip_gates)
    /\ EndForwardScan

\* The inner loop is over and the scan goes on with the next voltage.
ForwardNextVoltage ==
    /\ pc = "for_gate"
    /\ loc.gid > Len(args.gates)
    /\ ~AllSkipped(loc.skip_gates)
    /\ loc' = [loc EXCEPT !.vi = @ + 1]
    /\ pc' = "for_voltage"
    /\ UNCHANGED <<hardware, tuner, environment, op, args, outcome, pre,
                   sweeps, writes>>

-----------------------------------------------------------------------------
(* The tuner with its two orchestration calls.                             *)

\* The result of an earlier characterize_gates(d1, [gate 1]) whose sweep failed.
EarlierResult == RecordStage(<<>>, 1, [success |-> FALSE,
                                       termination_reasons |-> <<"open current">>])

Init ==
    /\ InitHardware
    /\ InitFrame
    /\ classifiers \in {{"pinchoff"}, {"singledot"}}
    /\ data_settings \in
          {[k \in {"db_name"} |-> "db"],
           [k \in {"db_name", "normalization_constants"} |->
               IF k = "db_name" THEN "db" ELSE "nc_old"]}
    /\ tuningresults \in {[n \in {} |-> <<>>], [n \in {"d1"} |-> <<EarlierResult>>]}
    /\ numpy_truncates \in BOOLEAN
    /\ device_constants = OpaqueConstants

Next ==
    \/ \E d \in DeviceNames, gs \in GateLists, use \in BOOLEAN :
           CharacterizeGates(d, gs, use)
    \/ \E r \in StageReturns : CharacterizeGatesRunStage(r)
    \/ CharacterizeGatesStageRaises
    \/ CharacterizeGatesReturn
    \/ \E gts \in Gates, gs \in GateLists, vs \in VoltageSteps :
           MeasureInitialRanges(gts, gs, vs)
    \/ ForwardSetVoltage
    \/ ForwardExhausted
    \/ ForwardKeyError
    \/ ForwardSkip
    \/ \E r \in StageReturns : ForwardRunStage(r)
    \/ ForwardStageRaises
    \/ ForwardBreak
    \/ ForwardNextVoltage

Spec == Init /\ [][Next]_vars

-----------------------------------------------------------------------------
(* The finally clauses of the rollback scopes, one setter call at a time,  *)
(* with setters that can raise.                                            *)

\* The block ends, normally or by raising: the finally clause starts.
FinallyEnter(raised) ==
    /\ pc = "yield"
    /\ pc' = "finally"
    /\ loc' = [loc EXCEPT !.vi = 1]
    /\ outcome' = [NoOutcome EXCEPT
                     !.kind = IF raised THEN "BodyError" ELSE "return"]
    /\ UNCHANGED <<hardware, tuner, environment, op, args, pre, sweeps, writes>>

\* Variant: the loop walks the gate list from its end.
FinallySetBackReversed ==
    /\ pc = "finally"
    /\ loc.vi <= Len(args.gates)
    /\ IF op = "set_back_voltages"
       THEN /\ dc_voltage' =
                   [dc_voltage EXCEPT
                      ![args.gates[Len(args.gates) + 1 - loc.vi]] =
                          loc.initial_voltages[Len(args.gates) + 1 - loc.vi]]
            /\ UNCHANGED current_valid_range
       ELSE /\ current_valid_range' =
                   [current_valid_range EXCEPT
                      ![args.gates[Len(args.gates) + 1 - loc.vi]] =
                          loc.valid_ranges[Len(args.gates) + 1 - loc.vi]]
            /\ UNCHANGED dc_voltage
    /\ sweeps' = Append(sweeps, [gate |-> args.gates[Len(args.gates) + 1 - loc.vi],
                                 raised |-> FALSE])
    /\ loc' = [loc EXCEPT !.vi = @ + 1]
    /\ UNCHANGED <<tuner, environment, pc, op, args, outcome, pre, writes>>

\* One pass of `for ig, gate in enumerate(gates)`: the setter returns.
FinallySetBack ==
    /\ pc = "finally"
    /\ loc.vi <= Len(args.gates)
    /\ IF op = "set_back_voltages"
       THEN /\ dc_voltage' = [dc_voltage EXCEPT
                                ![args.gates[loc.vi]] = loc.initial_voltages[loc.vi]]
            /\ UNCHANGED current_valid_range
       ELSE /\ current_valid_range' = [current_valid_range EXCEPT
                                ![args.gates[loc.vi]] = loc.valid_ranges[loc.vi]]
            /\ UNCHANGED dc_voltage
    /\ sweeps' = Append(sweeps, [gate |-> args.gates[loc.vi], raised |-> FALSE])
    /\ loc' = [loc EXCEPT !.vi = @ + 1]
    /\ UNCHANGED <<tuner, environment, pc, op, args, outcome, pre, writes>>

\* One pass of the loop: the setter raises, and the exception leaves the
\* finally clause and the scope.
FinallySetBackRaises ==
    /\ pc = "finally"
    /\ loc.vi <= Len(args.gates)
    /\ sweeps' = Append(sweeps, [gate |-> args.gates[loc.vi], raised |-> TRUE])
    /\ Raise("SetterError", IF op = "set_back_voltages" THEN 45 ELSE 61)
    /\ UNCHANGED <<hardware, tuner, environment, op, args, loc, pre, writes>>

\* The loop is over: the scope is left the way its block was left.
FinallyOver ==
    /\ pc = "finally"
    /\ loc.vi > Len(args.gates)
    /\ pc' = "done"
    /\ UNCHANGED <<hardware, tuner, environment, op, args, loc, outcome, pre,
                   sweeps, writes>>

\* The block of a scope writes the attribute that the scope restores.
BlockSetsVoltage(g, v) == op = "set_back_voltages" /\ BodySetVoltage(g, v)

BlockSetsRange(g, r) == op = "set_back_valid_ranges" /\ BodySetRange(g, r)

NextFaultyScope ==
    \/ \E gs \in GateLists : SetBackVoltagesEnter(gs)
    \/ \E gs \in GateLists : SetBackValidRangesEnter(gs)
    \/ \E g \in Gates, v \in Voltages : BlockSetsVoltage(g, v)
    \/ \E g \in Gates, r \in Ranges : BlockSetsRange(g, r)
    \/ \E raised \in BOOLEAN : FinallyEnter(raised)
    \/ FinallySetBack
    \/ FinallySetBackRaises
    \/ FinallyOver

SpecFaultyScope == InitScope /\ [][NextFaultyScope]_vars

-----------------------------------------------------------------------------
(* Tuner.update_normalization_constants and Tuner.getting_signal           *)

\* device.gates of the device "d1": every gate, in the device's order.
device_gates == [i \in 1..NumGates |-> i]

\* The keys of device.readout_methods(), in the dictionary's order.
ReadoutMethods == {<<>>, <<"dc_current">>, <<"dc_current", "dc_sensor">>}
Channels       == {"dc_current", "dc_sensor"}

\* What a readout parameter's get() can return.
Readings == {0, 5, 10}

\* Thresholds, in hundredths.
Thresholds == {20, 50}

\* device.all_gates_to_lowest(): every gate at the lower end of its safety range.
all_gates_to_lowest(voltages) == [g \in Gates |-> safety_range[g][1]]

\* `dict.fromkeys(available_readout_methods.keys(), (0.0, 1.0))`
FromKeys(keys, value) == [k \in {keys[i] : i \in 1..Len(keys)} |-> value]

\* get() of a readout parameter, at one extreme, returned val or raised.
Got(read_meth, extreme, val) ==
    [read_meth |-> read_meth, extreme |-> extreme, raised |-> FALSE, val |-> {val}]

GetRaised(read_meth, extreme) ==
    [read_meth |-> read_meth, extreme |-> extreme, raised |-> TRUE, val |-> {}]

\* The setter calls of `for ig, gate in enumerate(gates): gate.dc_voltage(...)`.
RestoreWrites(gs) == [ig \in 1..Len(gs) |-> <<"dc_voltage", gs[ig]>>]

\* The call up to the first pass of the lowest-extreme loop.
UpdateNormalizationConstants(rms) ==
    /\ StartCall
    /\ op' = "update_normalization_constants"
    /\ args' = [NoArgs EXCEPT !.device = "d1", !.gates = device_gates,
                              !.readout_methods = rms]
    /\ pre' = Snapshot
    /\ sweeps' = <<>>
    /\ loc' = [NoLoc EXCEPT
                 !.normalization_constants = FromKeys(rms, <<0, 1>>),
                 !.initial_voltages = Capture(dc_voltage, device_gates),
                 !.read_meth = 1]
    /\ dc_voltage' = all_gates_to_lowest(dc_voltage)
    /\ writes' = Append(writes, <<"all_gates_to_lowest", "d1">>)
    /\ pc' = "lowest_pass"
    /\ UNCHANGED <<current_valid_range, tuner, environment, outcome>>

\* Variant: an exception leaves the block without any restoration.
UnwindVoltagesSkipped ==
    /\ UNCHANGED <<dc_voltage, writes>>

\* set_back_voltages unwinds while an exception leaves the `with` block.
UnwindVoltages ==
    /\ dc_voltage' = RestoreVoltages(dc_voltage, args.gates,
                                      loc.initial_voltages, TRUE)
    /\ writes' = writes \o RestoreWrites(args.gates)

\* Lines 160-161: get() returns val, and the assignment into the tuple
\* `normalization_constants[read_meth]` raises TypeError.
LowestPassGet(val) ==
    /\ pc = "lowest_pass"
    /\ loc.read_meth <= Len(args.readout_methods)
    /\ sweeps' = Append(sweeps,
                        Got(args.readout_methods[loc.read_meth], "lowest", val))
    /\ UnwindVoltages
    /\ Raise("TypeError", 161)
    /\ UNCHANGED <<current_valid_range, tuner, environment, op, args, loc, pre>>

\* Variant: a failed readout commits the constants gathered so far.
LowestPassGetRaisesCommits ==
    /\ pc = "lowest_pass"
    /\ loc.read_meth <= Len(args.readout_methods)
    /\ sweeps' = Append(sweeps,
                        GetRaised(args.readout_methods[loc.read_meth], "lowest"))
    /\ UnwindVoltages
    /\ Raise("ReadoutError", 160)
    /\ device_constants' = [device_constants EXCEPT
                              ![args.device] = loc.normalization_constants]
    /\ UNCHANGED <<current_valid_range, tuner, numpy_truncates, op, args, loc,
                   pre>>

\* Line 160: get() raises; the exception leaves the call.
LowestPassGetRaises ==
    /\ pc = "lowest_pass"
    /\ loc.read_meth <= Len(args.readout_methods)
    /\ sweeps' = Append(sweeps,
                        GetRaised(args.readout_methods[loc.read_meth], "lowest"))
    /\ UnwindVoltages
    /\ Raise("ReadoutError", 160)
    /\ UNCHANGED <<current_valid_range, tuner, environment, op, args, loc, pre>>

\* The lowest-extreme loop is over: `device.all_gates_to_highest()`.
LowestPassOver ==
    /\ pc = "lowest_pass"
    /\ loc.read_meth > Len(args.readout_methods)
    /\ dc_voltage' = all_gates_to_highest(dc_voltage)
    /\ writes' = Append(writes, <<"all_gates_to_highest", "d1">>)
    /\ loc' = [loc EXCEPT !.read_meth = 1]
    /\ pc' = "highest_pass"
    /\ UNCHANGED <<current_valid_range, tuner, environment, op, args, outcome,
                   pre, sweeps>>

\* The highest-extreme loop is over: the scope restores the voltages, then
\* `device.normalization_constants(normalization_constants)`.
CommitNormalizationConstants ==
    /\ pc = "highest_pass"
    /\ loc.read_meth > Len(args.readout_methods)
    /\ dc_voltage' = RestoreVoltages(dc_voltage, args.gates,
                                      loc.initial_voltages, FALSE)
    /\ writes' = writes \o RestoreWrites(args.gates)
    /\ device_constants' = [device_constants EXCEPT
                              ![args.device] = loc.normalization_constants]
    /\ pc' = "done"
    /\ outcome' = [NoOutcome EXCEPT !.kind = "return"]
    /\ UNCHANGED <<current_valid_range, tuner, numpy_truncates, op, args, loc,
                   pre, sweeps>>

\* getting_signal: `norm_consts = self.normalization_constants()` raises
\* AttributeError, the tuner has no such attribute.
GettingSignal(ths, check, readings) ==
    /\ StartCall
    /\ op' = "getting_signal"
    /\ args' = [NoArgs EXCEPT !.device = "d1",
                              !.readout_methods = <<"dc_current", "dc_sensor">>,
                              !.thresholds_normalized = ths,
                              !.readout_method_to_check = check,
                              !.readings = readings]
    /\ pre' = Snapshot
    /\ sweeps' = <<>>
    /\ loc' = [NoLoc EXCEPT !.have_signal = FALSE]
    /\ Raise("AttributeError", 210)
    /\ UNCHANGED <<hardware, tuner, environment, writes>>

\* Constants a device can hold when a call starts.
StoredConstants ==
    {[ch \in {} |-> <<0, 0>>],
     [ch \in Channels |-> <<0, 10>>],
     [ch \in Channels |-> <<5, 5>>],
     [ch \in Channels |-> IF ch = "dc_current" THEN <<0, 10>> ELSE <<5, 5>>]}

InitCalib ==
    /\ InitHardware
    /\ InitFrame
    /\ classifiers = {"pinchoff"}
    /\ data_settings = [k \in {"db_name"} |-> "db"]
    /\ tuningresults = [n \in {} |-> <<>>]
    /\ numpy_truncates = TRUE
    /\ device_constants \in {[d \in DeviceNames |-> c] : c \in StoredConstants}

NextCalib ==
    \/ \E rms \in ReadoutMethods : UpdateNormalizationConstants(rms)
    \/ \E val \in Readings : LowestPassGet(val)
    \/ LowestPassGetRaises
    \/ LowestPassOver
    \/ CommitNormalizationConstants
    \/ \E ths \in {[ch \in Channels |-> t] : t \in Thresholds},
          check \in {{}, {<<"dc_current">>}, {<<"dc_sensor">>}},
          readings \in [Channels -> Readings] :
           GettingSignal(ths, check, readings)

SpecCalib == InitCalib /\ [][NextCalib]_vars

-----------------------------------------------------------------------------
\* C1: when a rollback scope has exited, normally or because its block
\* raised, every listed gate's output value (set_back_voltages) or allowed
\* range (set_back_valid_ranges) is the one it had right before the block.
C1_RollbackRestores ==
    (pc = "done" /\ op \in {"set_back_voltages", "set_back_valid_ranges"}) =>
        \A ig \in 1..Len(args.gates) :
            IF op = "set_back_voltages"
            THEN dc_voltage[args.gates[ig]] = pre.dc_voltage[args.gates[ig]]
            ELSE current_valid_range[args.gates[ig]] =
                     pre.current_valid_range[args.gates[ig]]

\* A block that wrote to a listed gate and then raised has been rolled back.
C1_Witness ==
    /\ pc = "done"
    /\ op = "set_back_valid_ranges"
    /\ outcome.kind = "BodyError"
    /\ Len(args.gates) >= 2
    /\ \E i \in 1..Len(writes) :
           /\ writes[i][1] = "current_valid_range"
           /\ \E ig \in 1..Len(args.gates) : args.gates[ig] = writes[i][2]

-----------------------------------------------------------------------------
(* Properties of the orchestration calls.                                  *)

Orchestration == {"characterize_gates", "measure_initial_ranges"}

\* The name add_result is given for the gate at position i of the gate list.
EntryName(i) == <<"characterization_", gate_name[args.gates[i]]>>

\* Every gate of the list of measure_initial_ranges has a successful sweep.
AllResponded ==
    /\ Len(args.gates) >= 1
    /\ \A i \in 1..Len(args.gates) :
          \E j \in 1..Len(sweeps) :
              sweeps[j].gate = args.gates[i] /\ sweeps[j].success

\* The forward step at which the last gate of the list first succeeded.
LastRespondStep ==
    CHOOSE st \in 1..Len(loc.v_steps) :
        /\ \E j \in 1..Len(sweeps) : sweeps[j].success /\ sweeps[j].step = st
        /\ \A j \in 1..Len(sweeps) : sweeps[j].success => sweeps[j].step <= st

\* C2: after characterize_gates or measure_initial_ranges has ended, by
\* return or by an exception, data_settings has the keys and values it had
\* when the call was entered; a bundle without 'normalization_constants'
\* has none afterwards.
C2_SettingsOverlayNeverLeaks ==
    (pc = "done" /\ op \in Orchestration) => data_settings = pre.data_settings

\* C3: without a 'pinchoff' classifier, characterize_gates and
\* measure_initial_ranges end with the KeyError of their first check, and no
\* gate value, allowed range, data_settings entry or archived result differs
\* from the state the call was entered in; no sweep was run.
C3_MissingClassifierFailsFirst ==
    (op \in Orchestration /\ "pinchoff" \notin classifiers) =>
        /\ pc = "done"
        /\ outcome.kind = "KeyError"
        /\ outcome.line \in {244, 287}
        /\ Snapshot = pre
        /\ sweeps = <<>>

C3_Witness ==
    /\ pc = "done"
    /\ op = "measure_initial_ranges"
    /\ "pinchoff" \notin classifiers
    /\ outcome.kind = "KeyError"
    /\ \E g \in Gates : dc_voltage[g] # safety_range[g][2]

\* C4: in characterize_gates with use_safety_ranges, every gate of `gates` has
\* its safety range as allowed range whenever a sweep is about to run; and
\* when the call has ended, by return or by a sweep that raised, every gate of
\* `gates` has the allowed range it had before the call, with or without
\* use_safety_ranges.
C4_SafetyRangesScoped ==
    op = "characterize_gates" =>
        /\ (pc = "characterize_gates_for" /\ args.use_safety_ranges) =>
               \A i \in 1..Len(args.gates) :
                   current_valid_range[args.gates[i]] = safety_range[args.gates[i]]
        /\ pc = "done" =>
               \A i \in 1..Len(args.gates) :
                   current_valid_range[args.gates[i]] =
                       pre.current_valid_range[args.gates[i]]

C4_Witness ==
    /\ pc = "done"
    /\ op = "characterize_gates"
    /\ args.use_safety_ranges
    /\ outcome.kind = "CollaboratorFailure"
    /\ Len(sweeps) >= 2
    /\ \A i \in 1..Len(args.gates) :
           pre.current_valid_range[args.gates[i]] # safety_range[args.gates[i]]

\* C5: when run_stage raises on the k-th gate of characterize_gates, the call
\* ends with that error, no gate after the k-th is swept, and the TuningResult
\* holds exactly the entries of gates 1..k-1, in gate order, with the success
\* flags their sweeps returned.
C5_StageErrorPropagates ==
    op = "characterize_gates" =>
        \A k \in 1..Len(sweeps) :
            sweeps[k].raised =>
                /\ pc = "done"
                /\ outcome.kind = "CollaboratorFailure"
                /\ k = Len(sweeps)
                /\ sweeps[k].gate = args.gates[k]
                /\ Len(loc.tuningresult) = k - 1
                /\ \A i \in 1..(k - 1) :
                       /\ loc.tuningresult[i].name = EntryName(i)
                       /\ loc.tuningresult[i].success = sweeps[i].success
                       /\ ~sweeps[i].raised

C5_Witness ==
    /\ pc = "done"
    /\ op = "characterize_gates"
    /\ outcome.kind = "CollaboratorFailure"
    /\ Len(sweeps) = 2
    /\ sweeps[2].raised
    /\ Len(loc.tuningresult) = 1

\* C6: when characterize_gates returns, run_stage was invoked once per gate of
\* `gates`, in list order, also after sweeps that reported no success, and the
\* returned TuningResult has one entry per gate, in that order, named
\* characterization_<gate name>, with the success flag and the termination
\* reasons of that gate's sweep.
C6_OneEntryPerGate ==
    (pc = "done" /\ op = "characterize_gates" /\ outcome.kind = "return") =>
        /\ Len(sweeps) = Len(args.gates)
        /\ Len(outcome.value) = Len(args.gates)
        /\ \A i \in 1..Len(args.gates) :
               /\ sweeps[i].gate = args.gates[i]
               /\ outcome.value[i].name = EntryName(i)
               /\ outcome.value[i].success = sweeps[i].success
               /\ outcome.value[i].termination_reasons =
                      sweeps[i].termination_reasons

C6_Witness ==
    /\ pc = "done"
    /\ op = "characterize_gates"
    /\ outcome.kind = "return"
    /\ Len(args.gates) >= 2
    /\ ~sweeps[1].success
    /\ sweeps[2].success

C8_ForwardScanLowerBound ==
    (pc = "done" /\ op = "measure_initial_ranges" /\ AllResponded) =>
        /\ loc.vi = LastRespondStep
        /\ loc.init_range_gate_to_set[1] = {loc.v_steps[LastRespondStep]}

\* C9: once measure_initial_ranges has computed its step count, the forward
\* step sequence exists, has ceil(|safety max - safety min| / voltage_step)
\* values, starts at the driving gate's safety maximum and ends at its safety
\* minimum.
C9_StepCountIsCeiling ==
    (op = "measure_initial_ranges" /\ "pinchoff" \in classifiers) =>
        LET v_range == safety_range[args.gate_to_set]
            width   == Abs(v_range[2] - v_range[1])
            ceiling == (width + args.voltage_step - 1) \div args.voltage_step
        IN /\ ~(outcome.kind = "TypeError" /\ outcome.line = 303)
           /\ Len(loc.v_steps) = ceiling
           /\ loc.v_steps[1] = v_range[2]
           /\ loc.v_steps[Len(loc.v_steps)] = v_range[1]

\* C10: a measure_initial_ranges call whose forward scan found every dependent
\* gate goes through the reverse probe: it ends by returning a range whose
\* upper bound is max(safety minimum of the driving gate, L - 0.1*|L|) for a
\* reported low-voltage feature L, or by the failure of the reverse probe.
C10_ReverseProbeClamp ==
    (pc = "done" /\ op = "measure_initial_ranges" /\ AllResponded) =>
        LET Features == {-500, -50, 50}
            min_rng  == safety_range[args.gate_to_set][1]
        IN /\ outcome.kind \in {"return", "RangeDiscoveryExhausted",
                                "CollaboratorFailure"}
           /\ outcome.kind = "return" =>
                  \E L \in Features :
                      outcome.value[1][2] = {Max2(min_rng, L - Abs(L) \div 10)}

\* C11: a measure_initial_ranges call whose forward scan found every dependent
\* gate and that ended without an upper bound ended with the
\* range-discovery-exhausted error (or with an error of run_stage).
C11_ExhaustedProbeFails ==
    (pc = "done" /\ op = "measure_initial_ranges" /\ AllResponded
        /\ loc.init_range_gate_to_set[2] = {}) =>
        outcome.kind \in {"RangeDiscoveryExhausted", "CollaboratorFailure"}

\* C12: with a driving gate and one dependent gate of safety range [-2, 0]
\* each and voltage_step 1.0, the forward step sequence is 0, -1.0, -2.0; when
\* the dependent gate first responds at -1.0 the call returns the lower bound
\* -1.0 and (reverse probe feature -0.5) the upper bound -0.55, and the
\* returned TuningResult starts with one entry per forward sweep, in the order
\* of the sweeps, with their success flags.
C12_EndToEnd ==
    (op = "measure_initial_ranges" /\ "pinchoff" \in classifiers
        /\ args.gate_to_set = 3 /\ args.gates = <<1>>
        /\ args.voltage_step = 100) =>
        /\ loc.v_steps = <<0, -100, -200>>
        /\ (pc = "done" /\ Len(sweeps) = 2 /\ sweeps[2].success) =>
               /\ outcome.kind = "return"
               /\ outcome.value[1] = <<{-100}, {-55}>>
               /\ Len(outcome.value[2]) >= 2
               /\ \A i \in 1..2 :
                      outcome.value[2][i].success = sweeps[i].success

\* The number of times the device was driven to its highest extreme.
RECURSIVE CountHighest(_)
CountHighest(w) ==
    IF w = <<>> THEN 0
    ELSE (IF w[1][1] = "all_gates_to_highest" THEN 1 ELSE 0) + CountHighest(Tail(w))

\* C13: measure_initial_ranges drives the device to its highest extreme before
\* the forward scan, and a call whose forward scan found every dependent gate
\* has driven it there a second time (before the reverse probe); when the call
\* has returned, every gate is at the upper end of its safety range and both
\* bounds of the returned pair are set.
C13_DrivenToHighest ==
    op = "measure_initial_ranges" =>
        /\ pc \in {"for_voltage", "for_gate"} => CountHighest(writes) >= 1
        /\ (pc = "done" /\ AllResponded) => CountHighest(writes) >= 2
        /\ (pc = "done" /\ outcome.kind = "return") =>
               /\ \A g \in Gates : dc_voltage[g] = safety_range[g][2]
               /\ outcome.value[1][1] # {}
               /\ outcome.value[1][2] # {}

\* The channels of the running call: the active ones, and the checked ones.
ActiveChannels == {args.readout_methods[i] : i \in 1..Len(args.readout_methods)}

CheckedChannels ==
    IF args.readout_method_to_check = {} THEN ActiveChannels
    ELSE UNION {{l[i] : i \in 1..Len(l)} : l \in args.readout_method_to_check}

\* C14: when no readout fails, update_normalization_constants returns and
\* the device stores one pair per active readout channel: the channel's own
\* reading at the lowest extreme, then its own reading at the highest extreme.
C14_ConstantsPerChannel ==
    (pc = "done" /\ op = "update_normalization_constants"
        /\ \A i \in DOMAIN sweeps : ~sweeps[i].raised) =>
        /\ outcome.kind = "return"
        /\ DOMAIN device_constants[args.device] = ActiveChannels
        /\ \A ch \in ActiveChannels :
              \E i, j \in DOMAIN sweeps :
                 /\ sweeps[i].read_meth = ch /\ sweeps[i].extreme = "lowest"
                 /\ sweeps[j].read_meth = ch /\ sweeps[j].extreme = "highest"
                 /\ sweeps[i].val = {device_constants[args.device][ch][1]}
                 /\ sweeps[j].val = {device_constants[args.device][ch][2]}

\* C15: when update_normalization_constants is over, by returning or by
\* raising, every gate of the device has the voltage it had when the call
\* started, and the last writes are the restoring ones, in the order of
\* device.gates.
C15_CalibrationRestoresVoltages ==
    (pc = "done" /\ op = "update_normalization_constants") =>
        /\ dc_voltage = pre.dc_voltage
        /\ Len(writes) >= NumGates
        /\ \A i \in 1..NumGates :
              writes[Len(writes) - NumGates + i] = <<"dc_voltage", device_gates[i]>>

\* A calibration that failed after it had moved every gate off its value.
C15_Witness ==
    /\ pc = "done"
    /\ op = "update_normalization_constants"
    /\ outcome.kind = "TypeError"
    /\ \A g \in Gates : pre.dc_voltage[g] # all_gates_to_lowest(dc_voltage)[g]
    /\ dc_voltage = pre.dc_voltage

\* C16: once a readout has failed in update_normalization_constants, the
\* call is over with that error and the device's stored constants are the
\* ones stored when the call started.
C16_CommitAtomic ==
    (op = "update_normalization_constants"
        /\ \E i \in DOMAIN sweeps : sweeps[i].raised) =>
        /\ pc = "done"
        /\ outcome.kind = "ReadoutError"
        /\ device_constants = pre.device_constants

\* A readout failed while the device held constants that differ from the
\* provisional ones.
C16_Witness ==
    /\ pc = "done"
    /\ op = "update_normalization_constants"
    /\ sweeps # <<>>
    /\ sweeps[Len(sweeps)].raised
    /\ DOMAIN pre.device_constants[args.device] = Channels
    /\ pre.device_constants[args.device] # loc.normalization_constants

\* (raw - min) / (max - min) > threshold, thresholds being in hundredths.
AboveThreshold(ch) ==
    LET c   == device_constants[args.device][ch]
        raw == args.readings[ch]
        t   == args.thresholds_normalized[ch]
    IN IF c[2] > c[1] THEN (raw - c[1]) * 100 > t * (c[2] - c[1])
       ELSE (raw - c[1]) * 100 < t * (c[2] - c[1])

\* C17: a getting_signal call whose checked channels (all active ones when
\* none are given) have usable constants returns TRUE exactly when the
\* normalized reading of at least one checked channel is strictly above
\* that channel's threshold.
C17_SignalIffAboveThreshold ==
    (pc = "done" /\ op = "getting_signal"
        /\ CheckedChannels \subseteq DOMAIN device_constants[args.device]
        /\ \A ch \in CheckedChannels :
              device_constants[args.device][ch][1] #
                  device_constants[args.device][ch][2]) =>
        /\ outcome.kind = "return"
        /\ outcome.value = (\E ch \in CheckedChannels : AboveThreshold(ch))

\* C18: a getting_signal call with a checked channel whose stored minimum
\* equals its stored maximum ends with an error about that division.
C18_DegenerateCalibrationSignalled ==
    (pc = "done" /\ op = "getting_signal"
        /\ \E ch \in CheckedChannels \cap DOMAIN device_constants[args.device] :
              device_constants[args.device][ch][1] =
                  device_constants[args.device][ch][2]) =>
        outcome.kind \in {"DegenerateCalibration", "ZeroDivisionError"}

\* C19: when a setter has raised while a rollback scope restores its gates,
\* a restoring call has been made for every gate of the list, and the scope
\* ends with the restoration error.
C19_RollbackExhaustive ==
    (pc = "done" /\ op \in {"set_back_voltages", "set_back_valid_ranges"}
        /\ \E i \in DOMAIN sweeps : sweeps[i].raised) =>
        /\ Len(sweeps) = Len(args.gates)
        /\ \A ig \in 1..Len(args.gates) : sweeps[ig].gate = args.gates[ig]
        /\ outcome.kind = "SetterError"

\* C20: during and after characterize_gates no gate voltage differs from the
\* one the gate had when the call started, and no voltage write is logged.
C20_NoVoltageWritten ==
    op = "characterize_gates" =>
        /\ dc_voltage = pre.dc_voltage
        /\ writes = <<>>

\* A call with use_safety_ranges that ran a sweep for two gates and returned.
C20_Witness ==
    /\ pc = "done"
    /\ op = "characterize_gates"
    /\ args.use_safety_ranges
    /\ outcome.kind = "return"
    /\ Len(sweeps) = 2
    /\ \E g \in Gates : dc_voltage[g] # 0

\* The position of a sweep's gate in the list of gates to sweep.
PositionOf(g) == CHOOSE p \in 1..Len(args.gates) : args.gates[p] = g

\* C21: in the forward scan of measure_initial_ranges the driving gate sits
\* at the step value while the gates of that step are swept; a gate that has
\* responded is not swept again; the sweeps of one step follow the list
\* order; every step that was started sweeps every gate that had not
\* responded before it, unless a sweep itself raised; and the entries of the
\* result are the sweeps that returned, in order, with their success flags.
C21_ForwardScanOrder ==
    (op = "measure_initial_ranges" /\ "pinchoff" \in classifiers) =>
        /\ pc = "for_gate" => dc_voltage[args.gate_to_set] = loc.v_steps[loc.vi]
        /\ \A i, j \in DOMAIN sweeps :
              (i < j /\ sweeps[i].gate = sweeps[j].gate) =>
                  /\ ~sweeps[i].success
                  /\ sweeps[i].step < sweeps[j].step
        /\ \A i, j \in DOMAIN sweeps :
              (i < j /\ sweeps[i].step = sweeps[j].step) =>
                  PositionOf(sweeps[i].gate) < PositionOf(sweeps[j].gate)
        /\ (pc = "done" /\ outcome.kind # "CollaboratorFailure") =>
              \A st \in 1..Min2(loc.vi, Len(loc.v_steps)), p \in 1..Len(args.gates) :
                 \E j \in DOMAIN sweeps :
                    /\ sweeps[j].gate = args.gates[p]
                    /\ \/ sweeps[j].step = st
                       \/ sweeps[j].step < st /\ sweeps[j].success
        /\ Len(loc.tuningresult) <= Len(sweeps)
        /\ \A i \in DOMAIN sweeps :
              ~sweeps[i].raised =>
                  /\ i <= Len(loc.tuningresult)
                  /\ loc.tuningresult[i].success = sweeps[i].success

\* The dependent gate that was the last to respond in the forward scan.
LastRespondingGate ==
    LET j == CHOOSE k \in DOMAIN sweeps :
                 /\ sweeps[k].success
                 /\ \A m \in DOMAIN sweeps : sweeps[m].success => m <= k
    IN sweeps[j].gate

\* C22: a measure_initial_ranges call whose dependent gates all responded
\* goes on with the reverse probe: after the device was driven to its
\* highest extreme a second time, the last responding gate is set to its own
\* safety maximum and the driving gate is measured.
C22_ReverseProbeSweepsLastGate ==
    (pc = "done" /\ op = "measure_initial_ranges" /\ AllResponded) =>
        /\ \E i, j \in DOMAIN writes :
              /\ 1 < i /\ i < j
              /\ writes[i][1] = "all_gates_to_highest"
              /\ writes[j] = <<"dc_voltage", LastRespondingGate>>
        /\ sweeps[Len(sweeps)].gate = args.gate_to_set
        /\ sweeps[Len(sweeps)].step > Len(loc.v_steps)
        /\ outcome.kind = "return"

\* C23: while and after a rollback scope restores, the k-th restoring write
\* goes to the gate at position k of the gate list, and a gate whose write
\* returned holds the value captured for its own position.
C23_RestoreInListOrder ==
    (op \in {"set_back_voltages", "set_back_valid_ranges"}
        /\ pc \in {"finally", "done"}) =>
        /\ Len(sweeps) <= Len(args.gates)
        /\ \A k \in DOMAIN sweeps :
              /\ sweeps[k].gate = args.gates[k]
              /\ ~sweeps[k].raised =>
                    IF op = "set_back_voltages"
                    THEN /\ dc_voltage[args.gates[k]] = loc.initial_voltages[k]
                         /\ loc.initial_voltages[k] = pre.dc_voltage[args.gates[k]]
                    ELSE /\ current_valid_range[args.gates[k]] = loc.valid_ranges[k]
                         /\ loc.valid_ranges[k] =
                                pre.current_valid_range[args.gates[k]]

\* A scope over two gates with different captured values, listed against
\* the device order, both changed by the block and both set back.
C23_Witness ==
    /\ pc = "done"
    /\ op = "set_back_voltages"
    /\ args.gates = <<2, 1>>
    /\ Len(writes) = 2
    /\ writes[1] # writes[2]
    /\ Len(sweeps) = 2
    /\ ~sweeps[1].raised
    /\ ~sweeps[2].raised
    /\ loc.initial_voltages[1] # loc.initial_voltages[2]

\* C24: from the moment measure_initial_ranges has driven the device to its
\* highest extreme, every gate's output value lies within that gate's own
\* safety range, whatever the call writes afterwards.
C24_WritesWithinSafetyRange ==
    (op = "measure_initial_ranges" /\ "pinchoff" \in classifiers) =>
        \A g \in Gates :
            /\ safety_range[g][1] <= dc_voltage[g]
            /\ dc_voltage[g] <= safety_range[g][2]

\* The driving gate was written down to its safety minimum, and a gate with
\* another safety range was swept at that step.
C24_Witness ==
    /\ op = "measure_initial_ranges"
    /\ sweeps # <<>>
    /\ sweeps[Len(sweeps)].step = Len(loc.v_steps)
    /\ safety_range[sweeps[Len(sweeps)].gate] # safety_range[args.gate_to_set]
    /\ dc_voltage[args.gate_to_set] = safety_range[args.gate_to_set][1]
    /\ dc_voltage[args.gate_to_set] # pre.dc_voltage[args.gate_to_set]

====
